---------------------------- MODULE Spec2Model ----------------------------
(***************************************************************************)
(* Model of the concurrent anomaly-detection ensemble of                   *)
(* src/anomaly_detector.py: three sliding-window detectors, one worker     *)
(* thread per detector (AnomalyDetectionWorker.run), and the coordinator   *)
(* AnomalyDetectionSystem.process_data_point / get_anomalies.              *)
(*                                                                         *)
(* queue.Queue is modelled with both of its parts: the FIFO of items and   *)
(* the unfinished_tasks counter that put() increments and task_done()      *)
(* decrements (task_done() raises ValueError when the counter is 0).       *)
(* A timed get(timeout=1) on an empty queue may expire at any moment the   *)
(* queue is empty: the model has no clock, so every delay is possible.     *)
(*                                                                         *)
(* The specifications share the state:                                     *)
(*   Spec   the system as main.py drives it: one caller of                 *)
(*          process_data_point and the three worker threads;               *)
(*   SpecS  Spec with a reader that calls get_anomalies;                   *)
(*   SpecW  the worker threads alone, fed by arbitrary producers on their  *)
(*          inbound queues (points of any kind, and the sentinel None);    *)
(*   SpecD  the detectors alone: direct calls of AnomalyDetector.update;   *)
(*   SpecZ  the detectors on constant streams of integers and of floats;   *)
(*   SpecC  the constructors of the detectors.                             *)
(***************************************************************************)
EXTENDS Integers, Sequences, FiniteSets, TLC

VARIABLES
    input_queues,    \* [worker -> FIFO of items put on its inbound queue]
    in_unfinished,   \* [worker -> unfinished_tasks of its inbound queue]
    output_queue,    \* FIFO of verdict entries on the shared outbound queue
    out_unfinished,  \* unfinished_tasks of the shared outbound queue
    data_window,     \* [worker -> its detector's deque of DataPoints]
    wpc,             \* [worker -> position of the thread in run()]
    wexit,           \* [worker -> how the try block was left: continue, break]
    wlog,            \* [worker -> number of "Error in <name>" lines printed]
    anomalies,       \* AnomalyDetectionSystem.anomalies
    cpc,             \* position of the caller inside process_data_point
    cpoint,          \* argument data_point of the call in progress
    ci,              \* loop index of the fan-out loop, then of the fan-in loop
    votes,           \* local variable votes
    cgot,            \* history: verdict entries taken by the call in progress
    ctimeouts,       \* history: waits of the call in progress that expired
    cresult,         \* history: how the last call ended and what it received
    processed,       \* history: the points passed to process_data_point
    ncalls,          \* number of process_data_point calls made so far
    next_time,       \* DataStreamer.t: time of the next generated point
    nput,            \* number of direct puts (SpecW) or direct updates (SpecD)
    nidle,           \* number of expired waits on an empty inbound queue
    sent_time,       \* history: [worker -> next_time at its first sentinel, or -1]
    ret,             \* history: detector, argument, outcome of the last direct update
    snap,            \* the list object the last get_anomalies call returned
    expect,          \* history: what the caller put into and left in that list
    nsnap,           \* number of get_anomalies calls and uses of their result
    zthreshold,      \* threshold of a ZScoreDetector the caller constructed
    built            \* history: the constructor calls made and their outcomes

vars == << input_queues, in_unfinished, output_queue, out_unfinished,
           data_window, wpc, wexit, wlog, anomalies, cpc, cpoint, ci, votes,
           cgot, ctimeouts, cresult, processed, ncalls, next_time, nput,
           nidle, sent_time, ret, snap, expect, nsnap, zthreshold,
           built >>

(* the variables of the snapshot interface and of the caller's own         *)
(* detectors, which no thread of the pipeline touches                      *)
svars == << snap, expect, nsnap, zthreshold, built >>

-----------------------------------------------------------------------------
(* Bounds of the model *)

(* calls of process_data_point in a behaviour of Spec *)
MaxPoints == 2

(* expired waits of workers on an empty inbound queue in a behaviour *)
MaxIdle == 1

(* direct puts on inbound queues in a behaviour of SpecW *)
MaxPut == 3

(* direct calls of update in a behaviour of SpecD *)
MaxUpdates == 3

(* bits of the mantissa of a float in the model (float64 has 53) *)
MantissaBits == 20

(* constructor calls in a behaviour of SpecC *)
MaxConstructs == 2

(* calls of get_anomalies and changes of the lists it returned (SpecS) *)
MaxSnaps == 2

(* Lengths of the stream already processed when a behaviour starts. *)
HistLens == {0, 29}

HistLensD == {0, 13, 14, 28, 29}

-----------------------------------------------------------------------------
(* Program constants *)

ZWindow == 30

MAWindow == 15

IQRWindow == 30

Quorum == 2

(* thresholds as fractions: 2.0 = 2/1, 1.5 = 3/2 *)
ZThresholdNum == 2

ZThresholdDen == 1

MAThresholdNum == 3

MAThresholdDen == 2

IQRFactorNum == 3

IQRFactorDen == 2

Workers == 1..3

N == Cardinality(Workers)

name(w) == CASE w = 1 -> "Z-Score" [] w = 2 -> "Moving Average" [] OTHER -> "IQR"

window_size(w) == CASE w = 1 -> ZWindow [] w = 2 -> MAWindow [] OTHER -> IQRWindow

-----------------------------------------------------------------------------
(* Values and data points.  A value is an int/float (kind "num", here an   *)
(* integer n), a float NaN (kind "nan"), or an object that is no number    *)
(* (kind "str").  None is the item a worker treats as its sentinel.        *)

Num(n) == [kind |-> "num", n |-> n]

NaN == [kind |-> "nan", n |-> 0]

NotANumber == [kind |-> "str", n |-> 0]

(* the value of an object that has no attribute value *)
Missing == [kind |-> "missing", n |-> 0]

(* A float that is no small integer, such as 0.1: kind "flt", n its        *)
(* mantissa, an integer of MantissaBits bits.  All "flt" values of a       *)
(* behaviour lie in one binade, so n counts units in the last place.       *)
Flt(m) == [kind |-> "flt", n |-> m]

(* the mantissa of 0.1 = 1.6 * 2^-4, rounded to MantissaBits bits *)
Tenth == Flt((2 ^ (MantissaBits + 3) + 5) \div 10)

(* the mantissa of 0.5 = 1.0 * 2^-1 *)
Half == Flt(2 ^ (MantissaBits - 1))

DataPoint(t, v) == [time |-> t, value |-> v]

None == [time |-> -1, value |-> [kind |-> "none", n |-> 0]]

Values == {Num(3), Num(4), NaN, NotANumber}

(* what update may be called with in SpecD *)
UpdateValues == Values \cup {Missing}

(* what the producers of SpecW put: a valid point or one that is no number *)
PutValues == {Num(4), NotANumber}

(* isinstance(value, (int, float)): NaN and the infinities are floats. *)
IsNumber(v) == v.kind \in {"num", "flt", "nan"}

IsFinite(v) == v.kind \in {"num", "flt"}

-----------------------------------------------------------------------------
(* Arithmetic of the detectors, in exact integers. *)

RECURSIVE Sum(_)
Sum(s) == IF s = <<>> THEN 0 ELSE Head(s) + Sum(Tail(s))

RECURSIVE SumSq(_)
SumSq(s) == IF s = <<>> THEN 0 ELSE Head(s) * Head(s) + SumSq(Tail(s))

ValuesOf(win) == [i \in 1..Len(win) |-> win[i].value.n]

HasNaN(win) == \E i \in 1..Len(win) : win[i].value.kind = "nan"

(* n^2 times the population variance of s *)
ScaledVar(s) == Len(s) * SumSq(s) - Sum(s) * Sum(s)

(* the k-th smallest element of s, k counted from 0 (sorted(s)[k]) *)
Sorted(s, k) ==
    CHOOSE v \in {s[i] : i \in 1..Len(s)} :
        /\ Cardinality({i \in 1..Len(s) : s[i] < v}) <= k
        /\ Cardinality({i \in 1..Len(s) : s[i] <= v}) > k

(* 4 * np.percentile(s, 25 * q), q in {1, 3}, linear interpolation *)
Percentile4(s, q) ==
    LET pos4 == (Len(s) - 1) * q
        lo   == pos4 \div 4
        fr   == pos4 % 4
    IN  IF fr = 0 THEN 4 * Sorted(s, lo)
        ELSE (4 - fr) * Sorted(s, lo) + fr * Sorted(s, lo + 1)


-----------------------------------------------------------------------------
(* Float arithmetic of np.mean and np.std on "flt" values: every sum and   *)
(* quotient is rounded to MantissaBits significant bits, ties to even.     *)

Abs(x) == IF x < 0 THEN -x ELSE x

(* the unit in the last place of the binade of x >= 0 *)
RECURSIVE Ulp(_)
Ulp(x) == IF x < 2 ^ MantissaBits THEN 1 ELSE 2 * Ulp(x \div 2)

(* a / b rounded to a multiple of u, ties to the even multiple *)
RoundTo(a, b, u) ==
    LET d == b * u
        q == a \div d
        r == a % d
    IN  IF 2 * r < d \/ (2 * r = d /\ q % 2 = 0) THEN q * u ELSE (q + 1) * u

Round(x) == RoundTo(x, 1, Ulp(x))

(* a / b rounded; quotients below one binade are exact in every use *)
RoundDiv(a, b) == RoundTo(a, b, Ulp(a \div b))

(* res += a[i] for the elements from index i on *)
RECURSIVE SeqSum(_, _, _)
SeqSum(acc, s, i) ==
    IF i > Len(s) THEN acc ELSE SeqSum(Round(acc + s[i]), s, i + 1)

(* one of the eight accumulators: r += a[i], a[i + 8], ... up to limit *)
RECURSIVE Lane(_, _, _, _)
Lane(acc, s, i, limit) ==
    IF i > limit THEN acc ELSE Lane(Round(acc + s[i]), s, i + 8, limit)

(* np.add.reduce on a float array of at most 128 elements: a plain loop    *)
(* below 8 elements, else eight accumulators over the multiple of 8,       *)
(* summed in pairs, then the rest one by one                               *)
PairwiseSum(s) ==
    LET n    == Len(s)
        full == n - (n % 8)
        r    == [k \in 1..8 |-> Lane(s[k], s, k + 8, full)]
    IN  IF n < 8 THEN SeqSum(0, s, 1)
        ELSE SeqSum(Round(Round(Round(r[1] + r[2]) + Round(r[3] + r[4]))
                          + Round(Round(r[5] + r[6]) + Round(r[7] + r[8]))),
                    s, full + 1)

(* np.sqrt: the integer nearest to the square root of x *)
FSqrt(x) ==
    LET r == CHOOSE k \in 0..x : k * k <= x /\ x < (k + 1) * (k + 1)
    IN  IF x - r * r > r THEN r + 1 ELSE r

(* np.mean(values) *)
FMean(s) == RoundDiv(PairwiseSum(s), Len(s))

(* np.std(values): sqrt(mean(abs(values - mean) ** 2)) *)
FStd(s) ==
    LET m  == FMean(s)
        sq == [i \in 1..Len(s) |-> Round((s[i] - m) * (s[i] - m))]
    IN  FSqrt(RoundDiv(PairwiseSum(sq), Len(s)))

IsFloatWindow(win) == \E i \in 1..Len(win) : win[i].value.kind = "flt"

-----------------------------------------------------------------------------
(* The three detect_anomaly rules.  Any NaN in the window makes every      *)
(* mean, deviation and percentile NaN, and every comparison with NaN is    *)
(* false, so the rule returns False.                                       *)

(* the rule on floats, as np.mean and np.std compute them *)
ZScoreDetectFloat(s, num, den) ==
    IF FStd(s) = 0 THEN FALSE
    ELSE den * Abs(s[Len(s)] - FMean(s)) > num * FStd(s)

(* ZScoreDetector.detect_anomaly with self.threshold = num / den *)
ZScoreDetectT(win, num, den) ==
    IF Len(win) < ZWindow THEN FALSE
    ELSE IF HasNaN(win) THEN FALSE
    ELSE IF IsFloatWindow(win) THEN ZScoreDetectFloat(ValuesOf(win), num, den)
    ELSE LET s == ValuesOf(win)
             n == Len(s)
             d == n * s[n] - Sum(s)
         IN  IF ScaledVar(s) = 0 THEN FALSE
             ELSE den * den * d * d > num * num * ScaledVar(s)

(* the detector of the system: ZScoreDetector() (line 159) *)
ZScoreDetect(win) == ZScoreDetectT(win, ZThresholdNum, ZThresholdDen)

(* MovingAverageDetect with the warm-up test off by one *)
MovingAverageDetectEarly(win) ==
    IF Len(win) < MAWindow - 1 THEN FALSE
    ELSE IF HasNaN(win) THEN FALSE
    ELSE LET s    == ValuesOf(win)
             prev == SubSeq(s, 1, Len(s) - 1)
             k    == Len(prev)
             d    == k * s[Len(s)] - Sum(prev)
         IN  MAThresholdDen * MAThresholdDen * d * d
               > MAThresholdNum * MAThresholdNum * ScaledVar(prev)

(* the rule on floats: s the window's values, prev all but the latest *)
MovingAverageDetectFloat(s, prev) ==
    MAThresholdDen * Abs(s[Len(s)] - FMean(prev)) > MAThresholdNum * FStd(prev)

MovingAverageDetect(win) ==
    IF Len(win) < MAWindow THEN FALSE
    ELSE IF HasNaN(win) THEN FALSE
    ELSE IF IsFloatWindow(win)
            THEN MovingAverageDetectFloat(ValuesOf(win),
                     SubSeq(ValuesOf(win), 1, Len(win) - 1))
    ELSE LET s    == ValuesOf(win)
             prev == SubSeq(s, 1, Len(s) - 1)
             k    == Len(prev)
             d    == k * s[Len(s)] - Sum(prev)
         IN  MAThresholdDen * MAThresholdDen * d * d
               > MAThresholdNum * MAThresholdNum * ScaledVar(prev)

(* IQRDetect without the test iqr == 0 *)
IQRDetectNoGuard(win) ==
    IF Len(win) < IQRWindow THEN FALSE
    ELSE IF HasNaN(win) THEN FALSE
    ELSE LET s    == ValuesOf(win)
             x    == s[Len(s)]
             q1   == Percentile4(s, 1)
             q3   == Percentile4(s, 3)
             iqr  == q3 - q1
         IN  \/ 4 * IQRFactorDen * x < IQRFactorDen * q1 - IQRFactorNum * iqr
             \/ 4 * IQRFactorDen * x > IQRFactorDen * q3 + IQRFactorNum * iqr

IQRDetect(win) ==
    IF Len(win) < IQRWindow THEN FALSE
    ELSE IF HasNaN(win) THEN FALSE
    ELSE LET s    == ValuesOf(win)
             x    == s[Len(s)]
             q1   == Percentile4(s, 1)
             q3   == Percentile4(s, 3)
             iqr  == q3 - q1
         IN  IF iqr = 0 THEN FALSE
             ELSE \/ 4 * IQRFactorDen * x < IQRFactorDen * q1 - IQRFactorNum * iqr
                  \/ 4 * IQRFactorDen * x > IQRFactorDen * q3 + IQRFactorNum * iqr

detect_anomaly(w, win) ==
    CASE w = 1 -> ZScoreDetect(win)
      [] w = 2 -> MovingAverageDetect(win)
      [] OTHER -> IQRDetect(win)

(* DequeAppend on a deque without maxlen: nothing is evicted *)
DequeAppendUnbounded(win, p, size) == Append(win, p)

(* deque(maxlen=window_size).append *)
DequeAppend(win, p, size) ==
    IF Len(win) < size THEN Append(win, p) ELSE Append(Tail(win), p)

(* AnomalyDetector.update: the validation, the append, the rule *)
UpdateRaises(p) == ~IsNumber(p.value)

UpdateWindow(w, win, p) == DequeAppend(win, p, window_size(w))

UpdateResult(w, win, p) == detect_anomaly(w, UpdateWindow(w, win, p))

-----------------------------------------------------------------------------
(* The state after construction (h = 0), or the state after a run of h     *)
(* points 0,2,0,2,... that every worker has processed and the coordinator  *)
(* has classified (none of them is anomalous), all threads waiting.        *)

HistoryPoint(t) == DataPoint(t, Num(IF t % 2 = 0 THEN 0 ELSE 2))

HistoryWindow(h, size) ==
    LET len == IF h < size THEN h ELSE size
    IN  [i \in 1..len |-> HistoryPoint(h - len + i - 1)]

(* no list has been returned yet *)
NoList == [taken |-> FALSE, shared |-> FALSE, items |-> <<>>]

NoResult == [how |-> "none", ntrue |-> 0, ngot |-> 0, ntimeouts |-> 0]

(* empty queues, threads waiting, no call made *)
InitOther ==
    /\ input_queues = [w \in Workers |-> <<>>]
    /\ in_unfinished = [w \in Workers |-> 0]
    /\ output_queue = <<>>
    /\ out_unfinished = 0
    /\ wpc = [w \in Workers |-> "get"]
    /\ wexit = [w \in Workers |-> "continue"]
    /\ wlog = [w \in Workers |-> 0]
    /\ anomalies = <<>>
    /\ cpc = "idle"
    /\ cpoint = None
    /\ ci = 0
    /\ votes = 0
    /\ cgot = <<>>
    /\ ctimeouts = 0
    /\ cresult = NoResult
    /\ ncalls = 0
    /\ nput = 0
    /\ nidle = 0
    /\ sent_time = [w \in Workers |-> -1]
    /\ ret = [w |-> 0, r |-> "none", arg |-> None]
    /\ snap = NoList
    /\ expect = <<>>
    /\ nsnap = 0
    /\ built = <<>>

(* threshold=2.0 (line 45) *)
DefaultThreshold == [num |-> ZThresholdNum, den |-> ZThresholdDen]

InitAfter(h) ==
    /\ InitOther
    /\ data_window = [w \in Workers |-> HistoryWindow(h, window_size(w))]
    /\ processed = HistoryWindow(h, h)
    /\ next_time = h
    /\ zthreshold = DefaultThreshold

Init == \E h \in HistLens : InitAfter(h)

(* the state after construction *)
Init0 == InitAfter(0)

InitD == \E h \in HistLensD : InitAfter(h)

(* thresholds a caller may construct its ZScoreDetector with *)
ZThresholds == {[num |-> 1, den |-> 2], [num |-> 1, den |-> 1],
                [num |-> 2, den |-> 1], [num |-> 3, den |-> 1]}

(* values of the constant streams *)
ZBases == {Num(3), Half, Tenth}

ConstantWindow(b, len) == [i \in 1..len |-> DataPoint(i - 1, b)]

(* A ZScoreDetector(threshold=t), a MovingAverageDetector() and an         *)
(* IQRDetector(), each after window_size - 1 updates of one value b.       *)
InitZ ==
    \E b \in ZBases, t \in ZThresholds :
        /\ InitOther
        /\ data_window = [w \in Workers |->
                             ConstantWindow(b, window_size(w) - 1)]
        /\ processed = <<>>
        /\ next_time = ZWindow - 1
        /\ zthreshold = t

-----------------------------------------------------------------------------
(* AnomalyDetectionSystem.process_data_point *)

qvars == << input_queues, in_unfinished, output_queue, out_unfinished >>

wvars == << data_window, wpc, wexit, wlog, nidle, sent_time >>

cvars == << anomalies, cpc, cpoint, ci, votes, cgot, ctimeouts, cresult,
            processed, ncalls >>

(* the validation of lines 173 and 28 *)
Invalid(p) == ~IsNumber(p.value)

(* Process with the first put ahead of the validation *)
ProcessPutsFirst(v) ==
    /\ cpc = "idle"
    /\ ncalls < MaxPoints
    /\ ncalls' = ncalls + 1
    /\ next_time' = next_time + 1
    /\ processed' = Append(processed, DataPoint(next_time, v))
    /\ input_queues' =
          [input_queues EXCEPT ![1] = Append(@, DataPoint(next_time, v))]
    /\ in_unfinished' = [in_unfinished EXCEPT ![1] = @ + 1]
    /\ IF Invalid(DataPoint(next_time, v))
          THEN /\ cresult' = [NoResult EXCEPT !.how = "DataValidationError"]
               /\ UNCHANGED << cpc, cpoint, ci >>
          ELSE /\ cresult' = [NoResult EXCEPT !.how = "running"]
               /\ cpc' = "fanout"
               /\ cpoint' = DataPoint(next_time, v)
               /\ ci' = 2
    /\ UNCHANGED << anomalies, votes, cgot, ctimeouts, nput, ret, svars >>
    /\ UNCHANGED << output_queue, out_unfinished >>
    /\ UNCHANGED wvars

(* The call and its validation (lines 172-174).  The caller passes the     *)
(* next point of the stream, whose time the stream then advances.          *)
Process(v) ==
    /\ cpc = "idle"
    /\ ncalls < MaxPoints
    /\ ncalls' = ncalls + 1
    /\ next_time' = next_time + 1
    /\ processed' = Append(processed, DataPoint(next_time, v))
    /\ IF Invalid(DataPoint(next_time, v))
          THEN /\ cresult' = [NoResult EXCEPT !.how = "DataValidationError"]
               /\ UNCHANGED << cpc, cpoint, ci >>
          ELSE /\ cresult' = [NoResult EXCEPT !.how = "running"]
               /\ cpc' = "fanout"
               /\ cpoint' = DataPoint(next_time, v)
               /\ ci' = 1
    /\ UNCHANGED << anomalies, votes, cgot, ctimeouts, nput, ret, svars >>
    /\ UNCHANGED qvars
    /\ UNCHANGED wvars

(* FanOut leaving the loop one queue early *)
FanOutShort ==
    /\ cpc = "fanout"
    /\ input_queues' = [input_queues EXCEPT ![ci] = Append(@, cpoint)]
    /\ in_unfinished' = [in_unfinished EXCEPT ![ci] = @ + 1]
    /\ IF ci >= N - 1
          THEN /\ cpc' = "get"
               /\ ci' = 1
               /\ votes' = 0
          ELSE /\ ci' = ci + 1
               /\ UNCHANGED << cpc, votes >>
    /\ UNCHANGED << output_queue, out_unfinished, anomalies, cpoint, cgot,
                    ctimeouts, cresult, processed, ncalls, next_time, nput,
                    ret, svars >>
    /\ UNCHANGED wvars

(* One iteration of the fan-out loop (lines 176-177), then votes = 0. *)
FanOut ==
    /\ cpc = "fanout"
    /\ input_queues' = [input_queues EXCEPT ![ci] = Append(@, cpoint)]
    /\ in_unfinished' = [in_unfinished EXCEPT ![ci] = @ + 1]
    /\ IF ci = N
          THEN /\ cpc' = "get"
               /\ ci' = 1
               /\ votes' = 0
          ELSE /\ ci' = ci + 1
               /\ UNCHANGED << cpc, votes >>
    /\ UNCHANGED << output_queue, out_unfinished, anomalies, cpoint, cgot,
                    ctimeouts, cresult, processed, ncalls, next_time, nput,
                    ret, svars >>
    /\ UNCHANGED wvars

(* Decide with the any-vote rule (votes > 0) in place of the quorum *)
DecideAnyVote(vs, list, p) == IF vs > 0 THEN Append(list, p) ELSE list

(* Decide inserting at the front of the list *)
DecidePrepend(vs, list, p) == IF vs >= Quorum THEN <<p>> \o list ELSE list

(* The decision after the loop (lines 190-191). *)
Decide(vs, list, p) == IF vs >= Quorum THEN Append(list, p) ELSE list

TrueCount(got) == Cardinality({i \in 1..Len(got) : got[i].is_anomaly})

(* The call is over: its locals are gone; what it received is kept as      *)
(* history.                                                                *)
EndCall(how, got) ==
    /\ cresult' = [how |-> how, ntrue |-> TrueCount(got), ngot |-> Len(got),
                   ntimeouts |-> ctimeouts]
    /\ cpc' = "idle"
    /\ cpoint' = None
    /\ ci' = 0
    /\ votes' = 0
    /\ cgot' = <<>>
    /\ ctimeouts' = 0

(* finally: output_queue.task_done() (lines 187-188) when unfinished_tasks *)
(* is positive, then the next iteration or, after the last one, the        *)
(* decision and the return.  vs and got are the locals votes and cgot as   *)
(* the iteration leaves them.                                              *)
TaskDoneOk(vs, got) ==
    /\ out_unfinished' = out_unfinished - 1
    /\ IF ci = N
          THEN /\ anomalies' = Decide(vs, anomalies, cpoint)
               /\ EndCall("returned", got)
          ELSE /\ ci' = ci + 1
               /\ cpc' = "get"
               /\ votes' = vs
               /\ cgot' = got
               /\ UNCHANGED << anomalies, cresult, cpoint, ctimeouts >>

(* output_queue.get(timeout=1) returns an entry (lines 182-184) and the    *)
(* finally clause runs.  put() only raises unfinished_tasks and nothing    *)
(* but this thread lowers it, so when it is positive at the take,          *)
(* task_done() succeeds whenever it runs and is part of this step; when it *)
(* is 0 the outcome depends on what is put before task_done() runs, and    *)
(* the thread stops in front of it.                                        *)
CoordGet ==
    /\ cpc = "get"
    /\ output_queue # <<>>
    /\ output_queue' = Tail(output_queue)
    /\ LET vs  == IF Head(output_queue).is_anomaly THEN votes + 1 ELSE votes
           got == Append(cgot, Head(output_queue))
       IN  IF out_unfinished > 0
              THEN TaskDoneOk(vs, got)
              ELSE /\ cpc' = "finally"
                   /\ votes' = vs
                   /\ cgot' = got
                   /\ UNCHANGED << out_unfinished, anomalies, cpoint, ci,
                                   ctimeouts, cresult >>
    /\ UNCHANGED << input_queues, in_unfinished, processed, ncalls, next_time,
                    nput, ret, svars >>
    /\ UNCHANGED wvars

(* CoordTimeout for get() without a timeout: the wait never expires *)
CoordWaitForever ==
    /\ cpc = "get"
    /\ output_queue = <<>>
    /\ UNCHANGED vars

(* output_queue.get(timeout=1) raises queue.Empty (lines 185-186). *)
CoordTimeout ==
    /\ cpc = "get"
    /\ output_queue = <<>>
    /\ ctimeouts' = ctimeouts + 1
    /\ cpc' = "finally"
    /\ UNCHANGED << anomalies, cpoint, ci, votes, cgot, cresult, processed,
                    ncalls, next_time, nput, ret, svars >>
    /\ UNCHANGED qvars
    /\ UNCHANGED wvars

(* finally: output_queue.task_done() (lines 187-188) after a wait that     *)
(* expired, or after a take at unfinished_tasks = 0: it raises ValueError  *)
(* out of the call when unfinished_tasks is still 0.                       *)
CoordTaskDone ==
    /\ cpc = "finally"
    /\ IF out_unfinished = 0
          THEN /\ EndCall("ValueError", cgot)
               /\ UNCHANGED << out_unfinished, anomalies >>
          ELSE TaskDoneOk(votes, cgot)
    /\ UNCHANGED << input_queues, in_unfinished, output_queue, processed,
                    ncalls, next_time, nput, ret, svars >>
    /\ UNCHANGED wvars

CoordStep == FanOut \/ CoordGet \/ CoordTimeout \/ CoordTaskDone

(* AnomalyDetectionSystem.get_anomalies (lines 193-194): a copy *)
get_anomalies == anomalies

(* Returning the list object itself in place of a copy of it *)
NoCopy(list) == [taken |-> TRUE, shared |-> TRUE, items |-> <<>>]

(* list.copy(): a new list object that holds the same elements.  A list    *)
(* object handed to the caller is either this new object, with items of    *)
(* its own, or (shared) the very object self.anomalies refers to.          *)
copy(list) == [taken |-> TRUE, shared |-> FALSE, items |-> list]

(* the elements of the list object the caller holds *)
Returned == IF snap.shared THEN anomalies ELSE snap.items

(* A call of get_anomalies (line 194), from any thread and at any moment:  *)
(* list.copy() is a single step under the interpreter lock.                *)
GetAnomalies ==
    /\ nsnap < MaxSnaps
    /\ nsnap' = nsnap + 1
    /\ snap' = copy(anomalies)
    /\ expect' = anomalies
    /\ UNCHANGED << next_time, nput, ret, zthreshold, built >>
    /\ UNCHANGED qvars
    /\ UNCHANGED wvars
    /\ UNCHANGED cvars

(* what the caller makes of a list: clear() or append(marker) *)
Mutated(list, m) ==
    IF m = "clear" THEN <<>> ELSE Append(list, DataPoint(0, Num(0)))

(* The caller changes the list object it was handed; a shared object is    *)
(* the coordinator's list.                                                 *)
CallerMutates(m) ==
    /\ snap.taken
    /\ nsnap < MaxSnaps
    /\ nsnap' = nsnap + 1
    /\ expect' = Mutated(Returned, m)
    /\ IF snap.shared
          THEN /\ anomalies' = Mutated(Returned, m)
               /\ UNCHANGED snap
          ELSE /\ snap' = [snap EXCEPT !.items = Mutated(Returned, m)]
               /\ UNCHANGED anomalies
    /\ UNCHANGED << cpc, cpoint, ci, votes, cgot, ctimeouts, cresult,
                    processed, ncalls, next_time, nput, ret, zthreshold, built >>
    /\ UNCHANGED qvars
    /\ UNCHANGED wvars

-----------------------------------------------------------------------------
(* AnomalyDetectionWorker.run *)

(* The verdict entry put on the outbound queue: (name, is_anomaly).  The   *)
(* field of is history: the time of the point the verdict was computed on. *)
Verdict(w, b, p) == [name |-> name(w), is_anomaly |-> b, of |-> p.time]

(* WorkerBreak with continue in place of break: the sentinel is skipped *)
WorkerBreakSkips(w) ==
    /\ wpc[w] = "get"
    /\ input_queues[w] # <<>>
    /\ Head(input_queues[w]) = None
    /\ input_queues' = [input_queues EXCEPT ![w] = Tail(@)]
    /\ wpc' = [wpc EXCEPT ![w] = "finally"]
    /\ wexit' = [wexit EXCEPT ![w] = "continue"]
    /\ UNCHANGED << in_unfinished, output_queue, out_unfinished, data_window,
                    wlog, nidle, sent_time, next_time, nput, ret, svars >>
    /\ UNCHANGED cvars

(* input_queue.get(timeout=1) returns None: break (lines 131-133), which   *)
(* runs the finally clause on its way out.                                 *)
WorkerBreak(w) ==
    /\ wpc[w] = "get"
    /\ input_queues[w] # <<>>
    /\ Head(input_queues[w]) = None
    /\ input_queues' = [input_queues EXCEPT ![w] = Tail(@)]
    /\ wpc' = [wpc EXCEPT ![w] = "finally"]
    /\ wexit' = [wexit EXCEPT ![w] = "break"]
    /\ UNCHANGED << in_unfinished, output_queue, out_unfinished, data_window,
                    wlog, nidle, sent_time, next_time, nput, ret, svars >>
    /\ UNCHANGED cvars

(* input_queue.get(timeout=1) returns a point, detector.update(data_point) *)
(* and output_queue.put (lines 131-135), or the except clause that prints  *)
(* the error (lines 138-139), and the finally clause.  The take touches    *)
(* only the head of the worker's own queue, so it is one step with the     *)
(* update.  As in CoordGet, task_done() is part of the step when           *)
(* unfinished_tasks is positive at the take, and a step of its own when    *)
(* it is 0.                                                                *)
WorkerProcess(w) ==
    /\ wpc[w] = "get"
    /\ input_queues[w] # <<>>
    /\ Head(input_queues[w]) # None
    /\ input_queues' = [input_queues EXCEPT ![w] = Tail(@)]
    /\ LET p == Head(input_queues[w]) IN
       IF UpdateRaises(p)
          THEN /\ wlog' = [wlog EXCEPT ![w] = @ + 1]
               /\ UNCHANGED << data_window, output_queue, out_unfinished >>
          ELSE /\ data_window' = [data_window EXCEPT ![w] = UpdateWindow(w, @, p)]
               /\ output_queue' =
                     Append(output_queue,
                            Verdict(w, UpdateResult(w, data_window[w], p), p))
               /\ out_unfinished' = out_unfinished + 1
               /\ UNCHANGED wlog
    /\ IF in_unfinished[w] > 0
          THEN /\ in_unfinished' = [in_unfinished EXCEPT ![w] = @ - 1]
               /\ UNCHANGED << wpc, wexit >>
          ELSE /\ wpc' = [wpc EXCEPT ![w] = "finally"]
               /\ wexit' = [wexit EXCEPT ![w] = "continue"]
               /\ UNCHANGED in_unfinished
    /\ UNCHANGED << nidle, sent_time, next_time, nput, ret, svars >>
    /\ UNCHANGED cvars

(* input_queue.get(timeout=1) raises queue.Empty; continue (lines 136-137), *)
(* which runs the finally clause first.                                     *)
WorkerTimeout(w) ==
    /\ wpc[w] = "get"
    /\ input_queues[w] = <<>>
    /\ nidle < MaxIdle
    /\ nidle' = nidle + 1
    /\ wpc' = [wpc EXCEPT ![w] = "finally"]
    /\ wexit' = [wexit EXCEPT ![w] = "continue"]
    /\ UNCHANGED << data_window, wlog, sent_time, next_time, nput, ret, svars >>
    /\ UNCHANGED qvars
    /\ UNCHANGED cvars

(* finally: input_queue.task_done() (lines 140-141), which raises          *)
(* ValueError out of run() when unfinished_tasks is 0 and ends the thread; *)
(* otherwise the loop goes on, or ends after break.                        *)
WorkerTaskDone(w) ==
    /\ wpc[w] = "finally"
    /\ IF in_unfinished[w] = 0
          THEN /\ wpc' = [wpc EXCEPT ![w] = "dead"]
               /\ UNCHANGED in_unfinished
          ELSE /\ in_unfinished' = [in_unfinished EXCEPT ![w] = @ - 1]
               /\ wpc' = [wpc EXCEPT ![w] =
                             IF wexit[w] = "break" THEN "shutdown" ELSE "get"]
    /\ UNCHANGED << input_queues, output_queue, out_unfinished, data_window,
                    wexit, wlog, nidle, sent_time, next_time, nput, ret, svars >>
    /\ UNCHANGED cvars

WorkerStep(w) ==
    WorkerBreak(w) \/ WorkerProcess(w) \/ WorkerTimeout(w) \/ WorkerTaskDone(w)

-----------------------------------------------------------------------------
(* Producers on a worker's inbound queue (queue.Queue.put): a point of any *)
(* kind, or the sentinel.                                                  *)

Put(w, v) ==
    /\ nput < MaxPut
    /\ nput' = nput + 1
    /\ next_time' = next_time + 1
    /\ input_queues' =
          [input_queues EXCEPT ![w] = Append(@, DataPoint(next_time, v))]
    /\ in_unfinished' = [in_unfinished EXCEPT ![w] = @ + 1]
    /\ UNCHANGED << output_queue, out_unfinished, ret, svars >>
    /\ UNCHANGED wvars
    /\ UNCHANGED cvars

PutSentinel(w) ==
    /\ nput < MaxPut
    /\ nput' = nput + 1
    /\ input_queues' = [input_queues EXCEPT ![w] = Append(@, None)]
    /\ in_unfinished' = [in_unfinished EXCEPT ![w] = @ + 1]
    /\ sent_time' = [sent_time EXCEPT ![w] = IF @ = -1 THEN next_time ELSE @]
    /\ UNCHANGED << output_queue, out_unfinished, data_window, wpc, wexit,
                    wlog, nidle, next_time, ret, svars >>
    /\ UNCHANGED cvars

-----------------------------------------------------------------------------
(* Update with the append ahead of the validation *)
UpdateAppendsFirst(w, v) ==
    /\ nput < MaxUpdates
    /\ nput' = nput + 1
    /\ next_time' = next_time + 1
    /\ LET p == DataPoint(next_time, v) IN
       /\ data_window' = [data_window EXCEPT ![w] = UpdateWindow(w, @, p)]
       /\ ret' = [w |-> w,
                  r |-> IF UpdateRaises(p) THEN "raised"
                        ELSE IF UpdateResult(w, data_window[w], p)
                                THEN "True" ELSE "False",
                  arg |-> p]
    /\ UNCHANGED << wpc, wexit, wlog, nidle, sent_time, svars >>
    /\ UNCHANGED qvars
    /\ UNCHANGED cvars

(* A direct call detector.update(DataPoint(t, v)) (lines 27-32). *)

Update(w, v) ==
    /\ nput < MaxUpdates
    /\ nput' = nput + 1
    /\ next_time' = next_time + 1
    /\ LET p == DataPoint(next_time, v) IN
       IF UpdateRaises(p)
          THEN /\ ret' = [w |-> w, r |-> "raised", arg |-> p]
               /\ UNCHANGED data_window
          ELSE /\ data_window' = [data_window EXCEPT ![w] = UpdateWindow(w, @, p)]
               /\ ret' = [w |-> w,
                          r |-> IF UpdateResult(w, data_window[w], p)
                                   THEN "True" ELSE "False",
                          arg |-> p]
    /\ UNCHANGED << wpc, wexit, wlog, nidle, sent_time, svars >>
    /\ UNCHANGED qvars
    /\ UNCHANGED cvars

(* A direct call update(DataPoint(t, v)) of one of the caller's own        *)
(* detectors, the Z-Score one being ZScoreDetector(threshold=zthreshold);  *)
(* v is the oldest value of the window or the float or integer d units     *)
(* above it.                                                               *)
UpdateZ(w, d) ==
    /\ nput < MaxUpdates
    /\ nput' = nput + 1
    /\ next_time' = next_time + 1
    /\ LET old == data_window[w][1].value
           p   == DataPoint(next_time, [old EXCEPT !.n = @ + d])
           win == UpdateWindow(w, data_window[w], p)
           r   == IF w = 1
                     THEN ZScoreDetectT(win, zthreshold.num, zthreshold.den)
                     ELSE detect_anomaly(w, win)
       IN  /\ data_window' = [data_window EXCEPT ![w] = win]
           /\ ret' = [w |-> w, r |-> IF r THEN "True" ELSE "False", arg |-> p]
    /\ UNCHANGED << wpc, wexit, wlog, nidle, sent_time, svars >>
    /\ UNCHANGED qvars
    /\ UNCHANGED cvars

-----------------------------------------------------------------------------
(* Construction of detectors (lines 17-25, 45-49, 69-73, 89-93).           *)
(* Arguments are strings, ints, numbers num/den, the float NaN, or absent. *)

StrArg(x) == [kind |-> "str", s |-> x, n |-> 0, num |-> 0, den |-> 1]

IntArg(k) == [kind |-> "int", s |-> "", n |-> k, num |-> k, den |-> 1]

NumArg(a, b) == [kind |-> "num", s |-> "", n |-> 0, num |-> a, den |-> b]

NaNArg == [kind |-> "nan", s |-> "", n |-> 0, num |-> 0, den |-> 1]

NoArg == [kind |-> "none", s |-> "", n |-> 0, num |-> 0, den |-> 1]

NameArgs == {StrArg("Z-Score"), StrArg(""), IntArg(7)}

SizeArgs == {IntArg(-1), IntArg(0), IntArg(1), IntArg(30), StrArg("30")}

ThresholdArgs == {NumArg(-1, 1), NumArg(0, 1), NumArg(1, 2), NumArg(2, 1),
                  IntArg(2), IntArg(0), NaNArg, StrArg("2")}

(* not isinstance(name, str) or not name (line 18) *)
BadName(a) == a.kind # "str" \/ a.s = ""

(* not isinstance(window_size, int) or window_size <= 0 (line 20) *)
BadWindowSize(a) == a.kind # "int" \/ a.n <= 0

(* BadThreshold with < in place of <= : zero is let through *)
BadThresholdZeroOk(a) ==
    a.kind \notin {"int", "num", "nan"} \/ (a.kind # "nan" /\ a.num < 0)

(* not isinstance(threshold, (int, float)) or threshold <= 0 (lines 47,    *)
(* 71, 91); NaN <= 0 is False                                              *)
BadThreshold(a) ==
    a.kind \notin {"int", "num", "nan"} \/ (a.kind # "nan" /\ a.num <= 0)

(* no object: the constructor raised *)
NoDetector == [made |-> FALSE, name |-> "", window_size |-> 0,
               threshold |-> NoArg, data_window |-> <<>>]

(* the attributes __init__ sets (lines 23-25, 49) *)
NewDetector(nm, ws, th) ==
    [made |-> TRUE, name |-> nm.s, window_size |-> ws.n, threshold |-> th,
     data_window |-> <<>>]

(* the outcome of a constructor call: ValueError or the object *)
Constructed(cls, nm, ws, th, bad) ==
    [cls |-> cls, name |-> nm, window_size |-> ws, threshold |-> th,
     raised |-> IF bad THEN "ValueError" ELSE "no",
     detector |-> IF bad THEN NoDetector ELSE NewDetector(nm, ws, th)]

(* AnomalyDetector(name, window_size) *)
ConstructBase(nm, ws) ==
    /\ Len(built) < MaxConstructs
    /\ built' = Append(built, Constructed("AnomalyDetector", nm, ws, NoArg,
                                          BadName(nm) \/ BadWindowSize(ws)))
    /\ UNCHANGED << snap, expect, nsnap, zthreshold, next_time, nput, ret >>
    /\ UNCHANGED qvars
    /\ UNCHANGED wvars
    /\ UNCHANGED cvars

(* ZScoreDetector(th), MovingAverageDetector(th), IQRDetector(th): the     *)
(* base constructor with the class's name and window size, then the check  *)
(* of the threshold or factor                                              *)
ConstructDetector(w, th) ==
    /\ Len(built) < MaxConstructs
    /\ built' = Append(built,
                       Constructed(name(w), StrArg(name(w)), IntArg(window_size(w)), th,
                                   \/ BadName(StrArg(name(w)))
                                   \/ BadWindowSize(IntArg(window_size(w)))
                                   \/ BadThreshold(th)))
    /\ UNCHANGED << snap, expect, nsnap, zthreshold, next_time, nput, ret >>
    /\ UNCHANGED qvars
    /\ UNCHANGED wvars
    /\ UNCHANGED cvars

-----------------------------------------------------------------------------
(* Specifications *)

Next ==
    \/ \E v \in Values : Process(v)
    \/ FanOut
    \/ CoordGet
    \/ CoordTimeout
    \/ CoordTaskDone
    \/ \E w \in Workers : WorkerProcess(w)
    \/ \E w \in Workers : WorkerTimeout(w)
    \/ \E w \in Workers : WorkerTaskDone(w)

(* The system as main.py drives it. *)
Spec == Init /\ [][Next]_vars

(* The system from its construction; the caller's thread keeps running,   *)
(* and its timed waits expire.                                             *)
FairSpec == Init0 /\ [][Next]_vars /\ WF_vars(CoordStep)

NextW ==
    \/ \E w \in Workers, v \in PutValues : Put(w, v)
    \/ \E w \in Workers : PutSentinel(w)
    \/ \E w \in Workers : WorkerBreak(w)
    \/ \E w \in Workers : WorkerProcess(w)
    \/ \E w \in Workers : WorkerTimeout(w)
    \/ \E w \in Workers : WorkerTaskDone(w)

(* The worker threads, from their construction, and the producers on      *)
(* their inbound queues.                                                   *)
SpecW == Init0 /\ [][NextW]_vars

(* Every worker thread keeps running, and its timed waits expire. *)
FairSpecW == SpecW /\ \A w \in Workers : WF_vars(WorkerStep(w))

(* the value the stream carries in SpecS: an outlier of the history *)
SnapValues == {Num(4)}

NextS ==
    \/ \E v \in SnapValues : Process(v)
    \/ FanOut
    \/ CoordGet
    \/ CoordTimeout
    \/ CoordTaskDone
    \/ \E w \in Workers : WorkerProcess(w)
    \/ \E w \in Workers : WorkerTimeout(w)
    \/ \E w \in Workers : WorkerTaskDone(w)
    \/ GetAnomalies
    \/ \E m \in {"clear", "append"} : CallerMutates(m)

(* the state after 29 points of the stream *)
InitS == InitAfter(ZWindow - 1)

(* The system after 29 points, and a reader of its anomaly list. *)
SpecS == InitS /\ [][NextS]_vars

NextZ == \E w \in Workers, d \in {0, 1} : UpdateZ(w, d)

(* The detectors, the Z-Score one of any threshold, on streams that are    *)
(* constant or nearly so.                                                  *)
SpecZ == InitZ /\ [][NextZ]_vars

NextC ==
    \/ \E nm \in NameArgs, ws \in SizeArgs : ConstructBase(nm, ws)
    \/ \E w \in Workers, th \in ThresholdArgs : ConstructDetector(w, th)

(* Constructor calls with arguments of every kind. *)
SpecC == Init0 /\ [][NextC]_vars

NextD == \E w \in Workers, v \in UpdateValues : Update(w, v)

(* The detectors alone. *)
SpecD == InitD /\ [][NextD]_vars

-----------------------------------------------------------------------------
(* Properties *)

Last(q) == q[Len(q)]

(* the last call's point is the last element of the anomaly list *)
Appended ==
    /\ anomalies # <<>>
    /\ processed # <<>>
    /\ Last(anomalies) = Last(processed)

(* C1 (Spec): a call that returned normally has appended its point if and  *)
(* only if at least Quorum = 2 of the verdicts it took from the outbound   *)
(* queue were true.                                                        *)
C1_QuorumLaw ==
    cresult.how = "returned" => (Appended <=> cresult.ntrue >= 2)

(* a call returned after taking three verdicts, two of them true, and its  *)
(* point is on the list                                                    *)
C1_Witness ==
    /\ cresult.how = "returned"
    /\ cresult.ngot = 3
    /\ cresult.ntrue = 2
    /\ Appended

(* C2 (Spec): a call in which exactly one wait expired returns normally    *)
(* and classifies its point by the verdicts that did arrive.               *)
C2_TimeoutDegradation ==
    cresult.ntimeouts = 1 =>
        /\ cresult.how = "returned"
        /\ Appended <=> cresult.ntrue >= 2

(* C3 (Spec): every verdict counted in the tally of a call was computed on *)
(* that call's point.                                                      *)
C3_NoStaleVerdict ==
    \A i \in 1..Len(cgot) : cgot[i].of = cpoint.time

(* C4 (Spec): the anomaly list is a subsequence of the processed points in *)
(* arrival order: its elements are processed points, in increasing order   *)
(* of arrival, none of them later than the last point processed.           *)
C4_Ordering ==
    /\ \A i \in 1..Len(get_anomalies) :
          /\ get_anomalies[i].time < next_time
          /\ get_anomalies[i].time + 1 \in 1..Len(processed)
          /\ get_anomalies[i] = processed[get_anomalies[i].time + 1]
    /\ \A i, j \in 1..Len(get_anomalies) :
          i < j => get_anomalies[i].time < get_anomalies[j].time

(* two points were found anomalous, one after the other *)
C4_Witness ==
    /\ Len(get_anomalies) = 2
    /\ cpc = "idle"

(* C5 (Spec): a point whose value is not finite is rejected by the         *)
(* validation: it is on no inbound queue and in no detector's window.      *)
C5_NonFiniteRejected ==
    \A w \in Workers :
        /\ \A i \in 1..Len(input_queues[w]) : IsFinite(input_queues[w][i].value)
        /\ \A i \in 1..Len(data_window[w]) : IsFinite(data_window[w][i].value)


Terminated(w) == wpc[w] \in {"dead", "shutdown"}

(* C6 (SpecW): a worker whose detector.update call has raised has logged   *)
(* the error and is alive: in its loop, or shut down by the sentinel.      *)
C6_FailureIsolation ==
    \A w \in Workers : wlog[w] > 0 => wpc[w] # "dead"

(* C7 (Spec): a worker thread has left its run loop only after taking the  *)
(* sentinel.                                                               *)
C7_WorkerLifetime ==
    \A w \in Workers : Terminated(w) => wexit[w] = "break"

(* the points worker w has taken are those put before its first sentinel   *)
NothingPastSentinel(w) ==
    sent_time[w] >= 0 =>
        /\ \A i \in 1..Len(data_window[w]) : data_window[w][i].time < sent_time[w]
        /\ \A i \in 1..Len(output_queue) :
              output_queue[i].name = name(w) => output_queue[i].of < sent_time[w]

(* when worker w has taken the sentinel, no point put ahead of it is left  *)
NothingLeftAhead(w) ==
    wexit[w] = "break" =>
        \A i \in 1..Len(input_queues[w]) :
            \/ input_queues[w][i] = None
            \/ input_queues[w][i].time >= sent_time[w]

(* a worker that has taken the sentinel takes nothing more *)
TakesNothingMore(w) ==
    wexit[w] = "break" =>
        /\ data_window'[w] = data_window[w]
        /\ wlog'[w] = wlog[w]
        /\ Len(input_queues'[w]) >= Len(input_queues[w])
        /\ wexit'[w] = "break"

(* C8 (FairSpecW): a running worker with the sentinel on its inbound queue *)
(* eventually terminates, having taken the sentinel and every point put    *)
(* ahead of it, and it never updates on or emits a verdict for a point put *)
(* after the sentinel.                                                     *)
C8_SentinelShutdown ==
    /\ \A w \in Workers :
          (sent_time[w] >= 0 /\ ~Terminated(w))
             ~> (Terminated(w) /\ wexit[w] = "break")
    /\ [](\A w \in Workers : NothingPastSentinel(w) /\ NothingLeftAhead(w))
    /\ [][\A w \in Workers : TakesNothingMore(w)]_vars

(* a worker has shut down after processing the point put ahead of the      *)
(* sentinel, and the point put after the sentinel is still on its queue    *)
C8_Witness ==
    \E w \in Workers :
        /\ wpc[w] = "shutdown"
        /\ input_queues[w] # <<>>
        /\ data_window[w] # <<>>
        /\ Last(data_window[w]).time = sent_time[w] - 1

(* C9 (FairSpec): every call of process_data_point finishes, after at most *)
(* N waits on the outbound queue, and exactly N when it returns.           *)
C9_BoundedBlocking ==
    /\ (cpc # "idle") ~> (cpc = "idle")
    /\ [](Len(cgot) + ctimeouts <= N)
    /\ [](cresult.how = "returned" => cresult.ngot + cresult.ntimeouts = N)

(* a call has finished although a worker's thread had ended and a wait     *)
(* expired                                                                 *)
C9_Witness ==
    /\ cpc = "idle"
    /\ cresult.ntimeouts >= 1
    /\ \E w \in Workers : wpc[w] = "dead"

(* C10 (SpecD): update returns False whenever the window, after the        *)
(* append, holds fewer than window_size points.                            *)
C10_WarmUp ==
    (ret.r \in {"True", "False"} /\ Len(data_window[ret.w]) < window_size(ret.w))
        => ret.r = "False"

(* the Moving Average detector returned False with 14 points in its window *)
C10_Witness ==
    /\ ret.w = 2
    /\ ret.r = "False"
    /\ Len(data_window[2]) = MAWindow - 1
    /\ Last(data_window[2]).value = Num(4)

(* C11 (SpecS): the list get_anomalies returned holds what the anomaly     *)
(* list held at the call and what the caller did to it since, whatever     *)
(* process_data_point appended later; and neither the call nor the         *)
(* caller's changes of the returned list change the anomaly list.          *)
C11_SnapshotIsolation ==
    /\ [](snap.taken => Returned = expect)
    /\ [][nsnap' # nsnap => anomalies' = anomalies]_vars

(* the call returned the first anomaly; since then the caller has appended *)
(* a point of its own to the copy and the system a second anomaly to its   *)
(* list                                                                    *)
C11_Witness ==
    /\ snap.taken
    /\ Len(anomalies) = 2
    /\ Len(Returned) = 2
    /\ Returned[1] = anomalies[1]
    /\ Returned[2] = DataPoint(0, Num(0))
    /\ anomalies[2].time = 30

AllEqual(win) == \A i \in 1..Len(win) : win[i].value = win[1].value

(* C12 (SpecZ): update of a Z-Score detector, of any positive threshold,   *)
(* returns False when its full window of 30 points holds one value only.   *)
C12_ZScoreDegenerate ==
    (/\ ret.w = 1
     /\ Len(data_window[1]) = ZWindow
     /\ AllEqual(data_window[1])) => ret.r = "False"

(* C13 (SpecZ): update of the IQR detector returns False when the 25th and *)
(* the 75th percentile of its full window of 30 points are equal.          *)
C13_IQRDegenerate ==
    (/\ ret.w = 3
     /\ Len(data_window[3]) = IQRWindow
     /\ Percentile4(ValuesOf(data_window[3]), 1)
           = Percentile4(ValuesOf(data_window[3]), 3)) => ret.r = "False"

(* the IQR detector returned False on a latest value above both quartiles  *)
C13_Witness ==
    /\ ret.w = 3
    /\ ret.r = "False"
    /\ Len(data_window[3]) = IQRWindow
    /\ Percentile4(ValuesOf(data_window[3]), 1)
          = Percentile4(ValuesOf(data_window[3]), 3)
    /\ 4 * Last(data_window[3]).value.n > Percentile4(ValuesOf(data_window[3]), 3)

(* C14 (SpecC): a constructor call with a window size that is an int not   *)
(* above 0, a name that is empty or no string, or a threshold or factor    *)
(* that is a number not above 0, raised ValueError and left no detector.   *)
C14_ConstructionValidation ==
    \A i \in 1..Len(built) :
        (\/ (built[i].window_size.kind = "int" /\ built[i].window_size.n <= 0)
         \/ built[i].name.kind # "str"
         \/ built[i].name.s = ""
         \/ (/\ built[i].threshold.kind \in {"int", "num"}
             /\ built[i].threshold.num <= 0))
        => (built[i].raised = "ValueError" /\ ~built[i].detector.made)

(* a ZScoreDetector(threshold=0) call raised, and an AnomalyDetector call   *)
(* with window_size=0 raised                                               *)
C14_Witness ==
    /\ Len(built) = 2
    /\ built[1].cls = "Z-Score"
    /\ built[1].threshold = NumArg(0, 1)
    /\ built[1].raised = "ValueError"
    /\ built[2].cls = "AnomalyDetector"
    /\ built[2].window_size = IntArg(0)
    /\ built[2].name = StrArg("Z-Score")
    /\ built[2].raised = "ValueError"

(* point p is on worker w's inbound queue or in its detector's window *)
PutTo(w, p) ==
    \/ \E i \in 1..Len(input_queues[w]) : input_queues[w][i] = p
    \/ \E i \in 1..Len(data_window[w]) : data_window[w][i] = p

(* C15 (Spec): while a call waits for verdicts its point has been put on   *)
(* every worker's inbound queue, and no verdict is awaited during the      *)
(* fan-out; a call begins only when no call is in progress, and the        *)
(* anomaly list changes only inside a call, by the append of that call's   *)
(* point, which is the last point passed in: once the fan-out of the next  *)
(* point has begun, what was decided for a point is final.                 *)
C15_PerPointBarrier ==
    /\ [](cpc \in {"get", "finally"} => \A w \in Workers : PutTo(w, cpoint))
    /\ [](cpc = "fanout" => (cgot = <<>> /\ ctimeouts = 0))
    /\ [][ncalls' # ncalls => cpc = "idle"]_vars
    /\ [][anomalies' # anomalies =>
            /\ cpc # "idle"
            /\ cpoint = Last(processed)
            /\ anomalies' = Append(anomalies, cpoint)]_vars

(* the second call waits for its verdicts, its point on all three queues,  *)
(* after the first point was found anomalous                               *)
C15_Witness ==
    /\ cpc = "get"
    /\ ncalls = 2
    /\ cgot = <<>>
    /\ Len(anomalies) = 1
    /\ \A w \in Workers : input_queues[w] = <<cpoint>>

(* C16 (Spec): the verdicts a call has counted come from distinct          *)
(* detectors.                                                              *)
C16_OneVerdictPerWorker ==
    \A i, j \in 1..Len(cgot) : i # j => cgot[i].name # cgot[j].name

(* a change of detector w's window is the append of the point just passed *)
(* to update, at the cost of the oldest point when the window was full     *)
FifoStep(w) ==
    data_window'[w] # data_window[w] =>
        /\ data_window'[w] # <<>>
        /\ Last(data_window'[w]).time = next_time
        /\ data_window'[w] =
              IF Len(data_window[w]) < window_size(w)
                 THEN Append(data_window[w], Last(data_window'[w]))
                 ELSE Append(Tail(data_window[w]), Last(data_window'[w]))

(* C17 (SpecD): every detector's window holds at most window_size points,  *)
(* in increasing order of arrival, and changes only by the append of the   *)
(* newly accepted point, which evicts exactly the oldest point when the    *)
(* window is full.                                                         *)
C17_WindowBoundFifo ==
    /\ [](\A w \in Workers :
            /\ Len(data_window[w]) <= window_size(w)
            /\ \A i, j \in 1..Len(data_window[w]) :
                  i < j => data_window[w][i].time < data_window[w][j].time)
    /\ [][\A w \in Workers : FifoStep(w)]_vars

(* the Z-Score detector's full window has lost its two oldest points *)
C17_Witness ==
    /\ Len(data_window[1]) = ZWindow
    /\ data_window[1][1].time = 2
    /\ Last(data_window[1]).time = 31

(* C18 (Spec): a call of process_data_point that fails with               *)
(* DataValidationError changes no inbound queue, no detector window, not   *)
(* the outbound queue and not the anomaly list.                            *)
C18_FailFastFrame ==
    [][(ncalls' # ncalls /\ cresult'.how = "DataValidationError") =>
          /\ input_queues' = input_queues
          /\ in_unfinished' = in_unfinished
          /\ data_window' = data_window
          /\ output_queue' = output_queue
          /\ out_unfinished' = out_unfinished
          /\ anomalies' = anomalies]_vars

(* the second call was rejected; the anomaly of the first is on the list   *)
(* and every worker has taken the first point and no other                 *)
C18_Witness ==
    /\ cresult.how = "DataValidationError"
    /\ ncalls = 2
    /\ Len(anomalies) = 1
    /\ \A w \in Workers :
          /\ input_queues[w] = <<>>
          /\ Last(data_window[w]) = anomalies[1]

(* C19 (SpecD): update called with a point that has no value, or a value   *)
(* that is no number, raises DataValidationError and leaves the detector's *)
(* window as it was.                                                       *)
C19_DetectorRejection ==
    [][(nput' # nput /\ ret'.arg.value.kind \in {"str", "missing"}) =>
          /\ ret'.r = "raised"
          /\ data_window' = data_window]_vars

(* the Moving Average detector, its window full, rejected a point whose    *)
(* value is no number, after accepting the point before it                 *)
C19_Witness ==
    /\ ret.w = 2
    /\ ret.r = "raised"
    /\ ret.arg.value = NotANumber
    /\ Len(data_window[2]) = MAWindow
    /\ Last(data_window[2]).time = ret.arg.time - 1

(* C20 (Spec): every verdict on the outbound queue was computed on the     *)
(* point of the call in progress; when no call is in progress the outbound *)
(* queue is empty, and no worker puts a verdict on it before the next call *)
(* starts.                                                                 *)
C20_Quiescence ==
    \A i \in 1..Len(output_queue) : output_queue[i].of = cpoint.time

=============================================================================
